---- MODULE Spec2Model ----
(***************************************************************************)
(* Model of src/Untitled2.py, the retail product analytics script: load    *)
(* (section 2), clean (3.1-3.4), feature engineering (4), category and     *)
(* brand aggregation (5), insights (7) and export (8).  Section 6 (charts) *)
(* only reads the tables and is left out.                                  *)
(*                                                                         *)
(* A float is <<kind, n, d>>: <<"fin", n, d>> is the number n/d in lowest  *)
(* terms (binary rounding is abstracted away), <<"inf", s, 1>> is +/-inf   *)
(* and <<"nan", 0, 1>> is NaN, pandas' missing value.  A text is a         *)
(* sequence of one-character strings.                                      *)
(***************************************************************************)
EXTENDS Integers, Sequences, FiniteSets, TLC

VARIABLES pc, csv, data_raw, products, premium_cutoff, category_agg,
          brand_agg, insights, error, output, recleaned

vars == <<pc, csv, data_raw, products, premium_cutoff, category_agg,
          brand_agg, insights, error, output, recleaned>>

----------------------------------------------------------------------------
(* Bounds of the model.                                                    *)

MaxRows == 3
MaxRawRows == 2
MaxLen == 3
MaxPrice == 2
MaxDecLen == 6
MaxExp == 9

----------------------------------------------------------------------------
(* Floats.                                                                 *)

NaN == <<"nan", 0, 1>>
PosInf == <<"inf", 1, 1>>
NegInf == <<"inf", -1, 1>>
Absent == <<"absent", 0, 1>>

Abs(n) == IF n < 0 THEN -n ELSE n

RECURSIVE GCD(_, _)
GCD(a, b) == IF b = 0 THEN a ELSE GCD(b, a % b)

Fin(n, d) ==
    LET g == GCD(Abs(n), Abs(d))
        s == IF d < 0 THEN -1 ELSE 1
    IN  <<"fin", s * (n \div g), s * (d \div g)>>

Num(n) == <<"fin", n, 1>>

IsNaN(a) == a[1] = "nan"
IsInf(a) == a[1] = "inf"
IsFin(a) == a[1] = "fin"
Sign(a) == IF a[2] < 0 THEN -1 ELSE 1

Neg(a) == IF IsNaN(a) THEN NaN ELSE <<a[1], -a[2], a[3]>>

Add(a, b) ==
    IF IsNaN(a) \/ IsNaN(b) THEN NaN
    ELSE IF IsInf(a) /\ IsInf(b) THEN (IF a[2] = b[2] THEN a ELSE NaN)
    ELSE IF IsInf(a) THEN a
    ELSE IF IsInf(b) THEN b
    ELSE LET g == GCD(a[3], b[3])
         IN  Fin(a[2] * (b[3] \div g) + b[2] * (a[3] \div g),
                 (a[3] \div g) * b[3])

Sub(a, b) == Add(a, Neg(b))

\* the product of two finite floats
Mul(a, b) == Fin(a[2] * b[2], a[3] * b[3])

Div(a, b) ==
    IF IsNaN(a) \/ IsNaN(b) THEN NaN
    ELSE IF IsInf(a) /\ IsInf(b) THEN NaN
    ELSE IF IsInf(a) THEN <<"inf", Sign(a) * Sign(b), 1>>
    ELSE IF IsInf(b) THEN Num(0)
    ELSE IF b[2] = 0 THEN (IF a[2] = 0 THEN NaN ELSE <<"inf", Sign(a), 1>>)
    ELSE LET g1 == GCD(Abs(a[2]), Abs(b[2]))
             g2 == GCD(a[3], b[3])
         IN  Fin((a[2] \div g1) * (b[3] \div g2),
                 (a[3] \div g2) * (b[2] \div g1))

\* a < b on floats; every comparison with NaN is false
Lt(a, b) ==
    IF IsNaN(a) \/ IsNaN(b) THEN FALSE
    ELSE IF IsInf(a) THEN a[2] < 0 /\ ~(IsInf(b) /\ b[2] < 0)
    ELSE IF IsInf(b) THEN b[2] > 0
    ELSE a[2] * b[3] < b[2] * a[3]

Ge(a, b) == ~IsNaN(a) /\ ~IsNaN(b) /\ ~Lt(a, b)

IsFinite(a) == IsFin(a)

----------------------------------------------------------------------------
(* Texts.                                                                  *)

DigitChars == <<"0", "1", "2", "3", "4", "5", "6", "7", "8", "9">>
Digits == {DigitChars[i] : i \in 1..10}
DigitVal(c) == (CHOOSE i \in 1..10 : DigitChars[i] = c) - 1
RunChars == Digits \cup {"."}

RECURSIVE Pow10(_)
Pow10(k) == IF k = 0 THEN 1 ELSE 10 * Pow10(k - 1)

\* the CSV's empty field, which read_csv loads as NaN
NaNCell == <<"NaN">>

\* Series.astype(str): NaN becomes the text "nan"
AsStr(cell) == IF cell = NaNCell THEN <<"n", "a", "n">> ELSE cell

\* .str.replace(",", "", regex=False)
RemoveCommas(s) == SelectSeq(s, LAMBDA c : c # ",")

\* .str.extract(r"([0-9.]+)"): the first maximal run of digits and dots,
\* <<>> when there is none (the cell is then NaN)
ExtractRun(s) ==
    LET starts == {i \in 1..Len(s) : s[i] \in RunChars}
    IN  IF starts = {} THEN <<>>
        ELSE LET i == CHOOSE x \in starts : \A y \in starts : x <= y
                 ends == {j \in i..Len(s) :
                             /\ \A k \in i..j : s[k] \in RunChars
                             /\ (j = Len(s) \/ s[j + 1] \notin RunChars)}
                 j == CHOOSE x \in ends : TRUE
             IN  SubSeq(s, i, j)

RECURSIVE DigitsValue(_)
DigitsValue(s) ==
    IF s = <<>> THEN 0
    ELSE 10 * DigitsValue(SubSeq(s, 1, Len(s) - 1)) + DigitVal(s[Len(s)])

\* whether float() / pd.to_numeric accept a run of digits and dots
ValidNumber(run) ==
    /\ Cardinality({i \in 1..Len(run) : run[i] = "."}) <= 1
    /\ \E i \in 1..Len(run) : run[i] \in Digits

\* the float a valid run of digits and dots denotes
RunValue(run) ==
    LET dots == {i \in 1..Len(run) : run[i] = "."}
        p == IF dots = {} THEN Len(run) + 1 ELSE CHOOSE i \in dots : TRUE
        ip == SubSeq(run, 1, p - 1)
        fp == SubSeq(run, p + 1, Len(run))
    IN  Fin(DigitsValue(ip) * Pow10(Len(fp)) + DigitsValue(fp), Pow10(Len(fp)))

\* pd.to_numeric(errors="coerce") of an extracted cell
ToNumericCoerce(run) ==
    IF run = <<>> \/ ~ValidNumber(run) THEN NaN ELSE RunValue(run)

\* .astype(float) of an extracted cell raises on a run that is no number
AsTypeFloatRaises(run) == run # <<>> /\ ~ValidNumber(run)

AsTypeFloat(run) == IF run = <<>> THEN NaN ELSE RunValue(run)

\* pd.to_numeric(errors="coerce") of a raw SellPrice cell: the whole text
\* must be a number; "inf" and "-inf" are numbers
ToNumericCell(cell) ==
    IF cell = NaNCell THEN NaN
    ELSE IF cell = <<"i", "n", "f">> THEN PosInf
    ELSE IF cell = <<"-", "i", "n", "f">> THEN NegInf
    ELSE IF cell # <<>> /\ (\A i \in 1..Len(cell) : cell[i] \in RunChars)
            /\ ValidNumber(cell)
         THEN RunValue(cell)
    ELSE IF Len(cell) > 1 /\ cell[1] = "-"
            /\ (\A i \in 2..Len(cell) : cell[i] \in RunChars)
            /\ ValidNumber(Tail(cell))
         THEN Neg(RunValue(Tail(cell)))
    ELSE NaN

----------------------------------------------------------------------------
(* Tables.  A row is a record with one field per column; a column the     *)
(* script has not added yet holds Absent.                                  *)

\* a missing Category, BrandName or Product ID (NaN)
NoKey == "NaN"

RawRow(pid, cat, brand, mrp, sell, disc, cur) ==
    [ProductID |-> pid, Category |-> cat, BrandName |-> brand, MRP |-> mrp,
     SellPrice |-> sell, Discount |-> disc, Currancy |-> cur]

\* pd.read_csv: an empty field is NaN
ReadCell(t) == IF t = <<>> THEN NaNCell ELSE t
ReadKey(k) == IF k = "" THEN NoKey ELSE k

ReadCsv(file) ==
    [i \in 1..Len(file) |->
        RawRow(ReadKey(file[i].ProductID), ReadKey(file[i].Category),
               ReadKey(file[i].BrandName), ReadCell(file[i].MRP),
               ReadCell(file[i].SellPrice), ReadCell(file[i].Discount),
               ReadCell(file[i].Currancy))]

\* data_raw.copy(), with the columns sections 3 and 4 add still absent
CopyTable(t) ==
    [i \in 1..Len(t) |->
        [ProductID |-> t[i].ProductID, Category |-> t[i].Category,
         BrandName |-> t[i].BrandName, MRP |-> t[i].MRP,
         SellPrice |-> t[i].SellPrice, Discount |-> t[i].Discount,
         Currancy |-> t[i].Currancy, MRP_clean |-> Absent,
         Discount_pct |-> Absent, Discount_value |-> Absent,
         Discount_ratio |-> Absent, Revenue |-> Absent,
         Is_premium |-> Absent]]

NoInsights == [highest_discount |-> "", premium_category |-> "",
               top_revenue |-> ""]

\* 3.1: the MRP_clean of one cell
CleanMRPCell(cell) == ToNumericCoerce(ExtractRun(RemoveCommas(AsStr(cell))))

\* 3.3: the extracted run of one Discount cell
DiscountRun(cell) == ExtractRun(AsStr(cell))

----------------------------------------------------------------------------
(* Sections 2 and 3: load and clean.                                       *)

\* section 2: data_raw = pd.read_csv(file_path); products = data_raw.copy()
Load ==
    /\ pc = "load"
    /\ data_raw' = ReadCsv(csv)
    /\ products' = CopyTable(ReadCsv(csv))
    /\ pc' = "clean_mrp"
    /\ UNCHANGED <<csv, premium_cutoff, category_agg, brand_agg, insights,
                   error, output, recleaned>>

\* 3.1: MRP_clean from the MRP text, unparsable runs coerced to NaN
CleanMRP ==
    /\ pc = "clean_mrp"
    /\ products' = [i \in 1..Len(products) |->
                       [products[i] EXCEPT
                           !.MRP_clean = CleanMRPCell(products[i].MRP)]]
    /\ pc' = "clean_sell"
    /\ UNCHANGED <<csv, data_raw, premium_cutoff, category_agg, brand_agg,
                   insights, error, output, recleaned>>

\* 3.2: SellPrice to numeric in place, unparsable cells coerced to NaN
CleanSellPrice ==
    /\ pc = "clean_sell"
    /\ products' = [i \in 1..Len(products) |->
                       [products[i] EXCEPT
                           !.SellPrice = ToNumericCell(products[i].SellPrice)]]
    /\ pc' = "extract_disc"
    /\ UNCHANGED <<csv, data_raw, premium_cutoff, category_agg, brand_agg,
                   insights, error, output, recleaned>>

\* 3.3: Discount_pct by .str.extract(...).astype(float); astype raises
\* ValueError when some cell's run is no number, and the script stops
ExtractDiscount ==
    /\ pc = "extract_disc"
    /\ IF \E i \in 1..Len(products) :
              AsTypeFloatRaises(DiscountRun(products[i].Discount))
       THEN /\ pc' = "aborted"
            /\ error' = "ValueError"
            /\ UNCHANGED products
       ELSE /\ products' =
                 [i \in 1..Len(products) |->
                     [products[i] EXCEPT
                         !.Discount_pct =
                             AsTypeFloat(DiscountRun(products[i].Discount))]]
            /\ pc' = "clean_cur"
            /\ UNCHANGED error
    /\ UNCHANGED <<csv, data_raw, premium_cutoff, category_agg, brand_agg,
                   insights, output, recleaned>>

\* 3.4: products["Currancy"].astype(str).strip(): a Series has no strip
\* attribute (only .str.strip), so the statement raises AttributeError on
\* every table and the script stops
CleanCurrency ==
    /\ pc = "clean_cur"
    /\ pc' = "aborted"
    /\ error' = "AttributeError"
    /\ UNCHANGED <<csv, data_raw, products, premium_cutoff, category_agg,
                   brand_agg, insights, output, recleaned>>

Next == Load \/ CleanMRP \/ CleanSellPrice \/ ExtractDiscount \/ CleanCurrency

----------------------------------------------------------------------------
(* Section 4: feature engineering.                                         *)

Column(t, name) == [i \in 1..Len(t) |-> t[i][name]]

DropNaN(vals) == SelectSeq(vals, LAMBDA v : ~IsNaN(v))

RECURSIVE InsertAsc(_, _)
InsertAsc(v, s) ==
    IF s = <<>> THEN <<v>>
    ELSE IF Lt(s[1], v) THEN <<s[1]>> \o InsertAsc(v, Tail(s))
    ELSE <<v>> \o s

RECURSIVE SortAsc(_)
SortAsc(s) == IF s = <<>> THEN <<>> ELSE InsertAsc(s[1], SortAsc(Tail(s)))

\* Series.quantile(0.75): linear interpolation at position 0.75 * (n - 1)
\* of the sorted non-missing values, NaN when there are none
Quantile75(vals) ==
    LET srt == SortAsc(DropNaN(vals))
        n == Len(srt)
        lo == (3 * (n - 1)) \div 4
        rem == (3 * (n - 1)) % 4
    IN  IF n = 0 THEN NaN
        ELSE IF rem = 0 THEN srt[lo + 1]
        ELSE Add(srt[lo + 1],
                 Mul(Sub(srt[lo + 2], srt[lo + 1]), Fin(rem, 4)))

\* line 141
DiscountValue(mrp_clean, sell) == Sub(mrp_clean, sell)

\* DiscountRatio without line 145
DiscountRatio_NotNormalised(value, mrp_clean) == Div(value, mrp_clean)

\* lines 144-145: the ratio, with every non-finite result set to NaN
DiscountRatio(value, mrp_clean) ==
    LET ratio == Div(value, mrp_clean)
    IN  IF ~IsFinite(ratio) THEN NaN ELSE ratio

\* IsPremium with > in place of >=
IsPremium_Strict(mrp_clean, cutoff) ==
    IF Ge(mrp_clean, cutoff) /\ mrp_clean # cutoff THEN 1 ELSE 0

\* line 152: (MRP_clean >= premium_cutoff).astype(int)
IsPremium(mrp_clean, cutoff) == IF Ge(mrp_clean, cutoff) THEN 1 ELSE 0

\* lines 141-152 on a cleaned table
DeriveTable(t) ==
    LET cutoff == Quantile75(Column(t, "MRP_clean"))
    IN  [i \in 1..Len(t) |->
            LET value == DiscountValue(t[i].MRP_clean, t[i].SellPrice)
            IN  [t[i] EXCEPT
                    !.Discount_value = value,
                    !.Discount_ratio = DiscountRatio(value, t[i].MRP_clean),
                    !.Revenue = t[i].SellPrice,
                    !.Is_premium = IsPremium(t[i].MRP_clean, cutoff)]]

Derive ==
    /\ pc = "derive"
    /\ premium_cutoff' = Quantile75(Column(products, "MRP_clean"))
    /\ products' = DeriveTable(products)
    /\ pc' = "aggregate"
    /\ UNCHANGED <<csv, data_raw, category_agg, brand_agg, insights, error,
                   output, recleaned>>

----------------------------------------------------------------------------
(* Section 5: category and brand summaries.                                *)

RECURSIVE SumAll(_)
SumAll(vals) == IF vals = <<>> THEN Num(0) ELSE Add(vals[1], SumAll(Tail(vals)))

\* "sum": missing values are skipped, an empty sum is 0
SumSkipNaN(vals) == SumAll(DropNaN(vals))

\* "mean": missing values are skipped, the mean of none is NaN
MeanSkipNaN(vals) ==
    LET present == DropNaN(vals)
    IN  IF present = <<>> THEN NaN
        ELSE Div(SumAll(present), Num(Len(present)))

\* "nunique": the number of distinct non-missing values
NUnique(keys) == Cardinality({keys[i] : i \in 1..Len(keys)} \ {NoKey})

\* GroupKeys as groupby(col, dropna=False) would give them
GroupKeys_KeepNaN(t, col) == {t[i][col] : i \in 1..Len(t)}

\* groupby(col): one group per distinct key; rows whose key is NaN belong
\* to no group (dropna=True is the default)
GroupKeys(t, col) == {t[i][col] : i \in 1..Len(t)} \ {NoKey}

GroupRows(t, col, k) == SelectSeq(t, LAMBDA r : r[col] = k)

PremiumFloats(rows) == [i \in 1..Len(rows) |-> Num(rows[i].Is_premium)]

\* CategoryRow with Total_Revenue summing SellPrice over all rows of the
\* table whose Category is k or missing
CategoryRow_CountsUnkeyed(t, k) ==
    LET rows == GroupRows(t, "Category", k)
        loose == SelectSeq(t, LAMBDA r : r.Category \in {k, NoKey})
    IN  [key |-> k,
         Products |-> NUnique(Column(rows, "ProductID")),
         Total_Revenue |-> SumSkipNaN(Column(loose, "Revenue")),
         Avg_MRP |-> MeanSkipNaN(Column(rows, "MRP_clean")),
         Avg_SellPrice |-> MeanSkipNaN(Column(rows, "SellPrice")),
         Avg_Discount_pct |-> MeanSkipNaN(Column(rows, "Discount_pct")),
         Premium_share |-> MeanSkipNaN(PremiumFloats(rows))]

\* lines 175-182
CategoryRow(t, k) ==
    LET rows == GroupRows(t, "Category", k)
    IN  [key |-> k,
         Products |-> NUnique(Column(rows, "ProductID")),
         Total_Revenue |-> SumSkipNaN(Column(rows, "Revenue")),
         Avg_MRP |-> MeanSkipNaN(Column(rows, "MRP_clean")),
         Avg_SellPrice |-> MeanSkipNaN(Column(rows, "SellPrice")),
         Avg_Discount_pct |-> MeanSkipNaN(Column(rows, "Discount_pct")),
         Premium_share |-> MeanSkipNaN(PremiumFloats(rows))]

\* lines 193-198
BrandRow(t, k) ==
    LET rows == GroupRows(t, "BrandName", k)
    IN  [key |-> k,
         Products |-> NUnique(Column(rows, "ProductID")),
         Total_Revenue |-> SumSkipNaN(Column(rows, "Revenue")),
         Avg_MRP |-> MeanSkipNaN(Column(rows, "MRP_clean")),
         Avg_Discount_pct |-> MeanSkipNaN(Column(rows, "Discount_pct"))]

\* MayPrecede as sort_values(ascending=True) would have it
MayPrecede_Ascending(a, b) == IsNaN(b) \/ (~IsNaN(a) /\ Ge(b, a))

\* whether sort_values(ascending=False) may put a row of total a before a
\* row of total b: NaN totals go last (na_position="last")
MayPrecede(a, b) == IsNaN(b) \/ (~IsNaN(a) /\ Ge(a, b))

\* sort_values("Total_Revenue", ascending=False): every order of the rows
\* that is descending with NaN last; the default sort is not stable, so the
\* order of rows with equal totals is any
SortValuesDesc(rows) ==
    LET n == Cardinality(rows)
    IN  {s \in [1..n -> rows] :
            /\ \A i, j \in 1..n : i # j => s[i] # s[j]
            /\ \A i, j \in 1..n :
                   i < j => MayPrecede(s[i].Total_Revenue, s[j].Total_Revenue)}

Aggregate ==
    /\ pc = "aggregate"
    /\ category_agg' \in SortValuesDesc(
           {CategoryRow(products, k) : k \in GroupKeys(products, "Category")})
    /\ brand_agg' \in SortValuesDesc(
           {BrandRow(products, k) : k \in GroupKeys(products, "BrandName")})
    /\ pc' = "report"
    /\ UNCHANGED <<csv, data_raw, products, premium_cutoff, insights, error,
                   output, recleaned>>

----------------------------------------------------------------------------
(* Section 7: insights.                                                    *)

Raise == "#raise"

\* Series.idxmax(): the key of the first row holding the largest
\* non-missing value.  On an empty column it raises ValueError.  On a
\* column of NaN only the outcome depends on the pandas release: NaN is
\* returned (up to 2.x) or ValueError is raised (from 3.0).
IdxMax(agg, col) ==
    LET present == {i \in 1..Len(agg) : ~IsNaN(agg[i][col])}
    IN  IF Len(agg) = 0 THEN {Raise}
        ELSE IF present = {} THEN {NoKey, Raise}
        ELSE LET best == {i \in present :
                             \A j \in present : Ge(agg[i][col], agg[j][col])}
                 first == CHOOSE i \in best : \A j \in best : i <= j
             IN  {agg[first].key}

\* lines 281-290: three idxmax calls in turn; the first that raises stops
\* the script
Report ==
    /\ pc = "report"
    /\ \E d \in IdxMax(category_agg, "Avg_Discount_pct"),
          p \in IdxMax(category_agg, "Premium_share"),
          r \in IdxMax(category_agg, "Total_Revenue") :
          IF d = Raise
          THEN /\ pc' = "aborted" /\ error' = "ValueError"
               /\ UNCHANGED insights
          ELSE IF p = Raise
          THEN /\ pc' = "aborted" /\ error' = "ValueError"
               /\ insights' = [insights EXCEPT !.highest_discount = d]
          ELSE IF r = Raise
          THEN /\ pc' = "aborted" /\ error' = "ValueError"
               /\ insights' = [insights EXCEPT !.highest_discount = d,
                                               !.premium_category = p]
          ELSE /\ pc' = "export" /\ UNCHANGED error
               /\ insights' = [highest_discount |-> d,
                               premium_category |-> p, top_revenue |-> r]
    /\ UNCHANGED <<csv, data_raw, products, premium_cutoff, category_agg,
                   brand_agg, output, recleaned>>

----------------------------------------------------------------------------
(* Section 8: export.                                                      *)

\* products.to_csv(output_path, index=False)
Export ==
    /\ pc = "export"
    /\ output' = products
    /\ pc' = "done"
    /\ UNCHANGED <<csv, data_raw, products, premium_cutoff, category_agg,
                   brand_agg, insights, error, recleaned>>

StageNext == Derive \/ Aggregate \/ Report \/ Export

----------------------------------------------------------------------------
(* Input tables.                                                           *)

RECURSIVE SeqsUpTo(_, _)
SeqsUpTo(S, n) ==
    IF n = 0 THEN {<<>>}
    ELSE LET shorter == SeqsUpTo(S, n - 1)
         IN  shorter \cup {Append(s, x) : s \in {t \in shorter : Len(t) = n - 1},
                                          x \in S}

\* the price and discount texts the specification gives as examples
ExampleMRP == { <<"3", ",", "9", "0", "0">>, <<"a", "b", "c">>,
                <<"R", "s", ".", " ", "5", "0", "0">>, <<>> }
ExampleDiscount == { <<"2", "0", "%", " ", "o", "f", "f">>, <<"N", "/", "A">>,
                     <<"1", ".", "2", ".", "3">>, <<>> }
ExampleSell == { <<"8", "0", "0">>, <<"i", "n", "f">>, <<"a", "b", "c">> }

ExampleRows ==
    {RawRow("p", cat, "X", mrp, sell, disc, <<"R", "s">>) :
        cat \in {"A", ""}, mrp \in ExampleMRP, sell \in ExampleSell,
        disc \in ExampleDiscount}

StartAt(stage, file) ==
    /\ pc = stage
    /\ csv = file
    /\ data_raw = <<>>
    /\ products = <<>>
    /\ premium_cutoff = Absent
    /\ category_agg = <<>>
    /\ brand_agg = <<>>
    /\ insights = NoInsights
    /\ error = ""
    /\ output = <<>>
    /\ recleaned = <<>>

\* a run of the script on a readable file with the required columns
Init == \E file \in SeqsUpTo(ExampleRows, MaxRawRows) : StartAt("load", file)

Spec == Init /\ [][Next]_vars

\* one-row files whose MRP or Discount cell is any text over Alphabet of at
\* most MaxLen characters
Alphabet == {"1", "2", ".", ",", "x"}

Texts == SeqsUpTo(Alphabet, MaxLen)

ExtractInit ==
    \E t \in Texts, col \in {"MRP", "Discount"} :
        StartAt("load", << RawRow("p", "A", "X",
                                  IF col = "MRP" THEN t ELSE <<>>,
                                  <<"1">>,
                                  IF col = "Discount" THEN t ELSE <<>>,
                                  <<"R", "s">>) >>)

ExtractSpec == ExtractInit /\ [][Next]_vars

----------------------------------------------------------------------------
(* Sections 4 to 8 are checked from the tables sections 3.1 to 3.3 build:  *)
(* in a whole run CleanCurrency raises before section 4 is reached.        *)

\* lines 100-117 on a loaded table none of whose Discount cells makes
\* astype(float) raise
CleanTable(t) ==
    [i \in 1..Len(t) |->
        [t[i] EXCEPT
            !.MRP_clean = CleanMRPCell(t[i].MRP),
            !.SellPrice = ToNumericCell(t[i].SellPrice),
            !.Discount_pct = AsTypeFloat(DiscountRun(t[i].Discount))]]

Cleanable(file) ==
    \A i \in 1..Len(file) :
        ~AsTypeFloatRaises(DiscountRun(ReadCell(file[i].Discount)))

StartCleaned(file) ==
    /\ Cleanable(file)
    /\ pc = "derive"
    /\ csv = file
    /\ data_raw = ReadCsv(file)
    /\ products = CleanTable(CopyTable(ReadCsv(file)))
    /\ premium_cutoff = Absent
    /\ category_agg = <<>>
    /\ brand_agg = <<>>
    /\ insights = NoInsights
    /\ error = ""
    /\ output = <<>>
    /\ recleaned = <<>>

InfText == <<"i", "n", "f">>
NegInfText == <<"-", "i", "n", "f">>

RECURSIVE SetToSeq(_)
SetToSeq(S) ==
    IF S = {} THEN <<>>
    ELSE LET x == CHOOSE y \in S : TRUE IN <<x>> \o SetToSeq(S \ {x})

\* the non-decreasing sequences over 1..d of at most n numbers
RECURSIVE Ascending(_, _)
Ascending(d, n) ==
    IF n = 0 THEN {<<>>}
    ELSE LET shorter == Ascending(d, n - 1)
             longest == {t \in shorter : Len(t) = n - 1}
         IN  shorter \cup
             UNION {{Append(s, x) :
                        x \in (IF s = <<>> THEN 1 ELSE s[Len(s)])..d} :
                    s \in longest}

\* the files of at most n rows of a set, one per multiset of rows: sections
\* 4 to 7 work column by column, by quantile and by group, so the order of
\* the product rows does not change what they compute
FilesOf(rowseq, n) ==
    {[i \in 1..Len(ix) |-> rowseq[ix[i]]] : ix \in Ascending(Len(rowseq), n)}

\* the one-digit prices 0..MaxPrice
PriceTexts == {<<DigitChars[i + 1]>> : i \in 0..MaxPrice}

\* tables that vary the two prices
DeriveRows ==
    {RawRow("p", "A", "X", mrp, sell, <<>>, <<"R", "s">>) :
        mrp \in PriceTexts \cup {<<>>},
        sell \in {<<>>, <<"1">>, <<"2">>, InfText, NegInfText}}

DeriveRowSeq == SetToSeq(DeriveRows)

DeriveInit == \E file \in FilesOf(DeriveRowSeq, MaxRows) : StartCleaned(file)

DeriveSpec == DeriveInit /\ [][StageNext]_vars

\* tables that vary the grouping keys, the product and the revenue
AggRows ==
    {RawRow(item[1], cat, item[2], <<"1">>, sell, <<>>, <<"R", "s">>) :
        item \in {<<"p", "X">>, <<"q", "Y">>},
        cat \in {"A", "B", ""},
        sell \in {<<>>, <<"1">>, InfText, NegInfText}}

AggRowSeq == SetToSeq(AggRows)

AggInit == \E file \in FilesOf(AggRowSeq, MaxRows) : StartCleaned(file)

AggSpec == AggInit /\ [][StageNext]_vars

\* tables that vary what the three insights read
InsightRows ==
    {RawRow("p", cat, "X", mrp, sell, disc, <<"R", "s">>) :
        cat \in {"A", "B", ""}, mrp \in {<<"1">>, <<"2">>},
        sell \in {<<>>, <<"1">>}, disc \in {<<>>, <<"1">>, <<"2">>}}

InsightRowSeq == SetToSeq(InsightRows)

InsightInit == \E file \in FilesOf(InsightRowSeq, MaxRows) : StartCleaned(file)

InsightSpec == InsightInit /\ [][StageNext]_vars

----------------------------------------------------------------------------
(* The cleaning and derivation of sections 3 and 4 applied a second time,  *)
(* to the table they produced: MRP_clean, SellPrice and Discount_pct are   *)
(* read as the MRP, SellPrice and Discount columns.                        *)

RECURSIVE NatText(_)
NatText(n) ==
    IF n < 10 THEN <<DigitChars[n + 1]>>
    ELSE Append(NatText(n \div 10), DigitChars[(n % 10) + 1])

RECURSIVE ZeroPad(_, _)
ZeroPad(t, k) == IF Len(t) >= k THEN t ELSE ZeroPad(<<"0">> \o t, k)

RECURSIVE StripZeros(_)
StripZeros(n) == IF n # 0 /\ n % 10 = 0 THEN StripZeros(n \div 10) ELSE n

\* str(x) of a float, as astype(str) renders each cell: the shortest
\* decimal that reads back as x, in fixed notation when the decimal
\* exponent is in -4..15 and in exponent notation otherwise
FormatFloat(v) ==
    IF IsNaN(v) THEN <<"n", "a", "n">>
    ELSE IF IsInf(v) THEN (IF v[2] < 0 THEN NegInfText ELSE InfText)
    ELSE LET n == Abs(v[2])
             sign == IF v[2] < 0 THEN <<"-">> ELSE <<>>
             k == CHOOSE x \in 0..MaxExp :
                      /\ Pow10(x) % v[3] = 0
                      /\ \A y \in 0..(x - 1) : Pow10(y) % v[3] # 0
             m == n * (Pow10(k) \div v[3])
             e == Len(NatText(m)) - 1 - k
             sig == NatText(StripZeros(m))
             etext == ZeroPad(NatText(Abs(e)), 2)
         IN  IF n = 0 THEN <<"0", ".", "0">>
             ELSE IF e >= -4 /\ e < 16
             THEN sign \o NatText(m \div Pow10(k)) \o <<".">> \o
                  (IF k = 0 THEN <<"0">> ELSE ZeroPad(NatText(m % Pow10(k)), k))
             ELSE sign \o <<sig[1]>> \o
                  (IF Len(sig) > 1 THEN <<".">> \o Tail(sig) ELSE <<>>) \o
                  <<"e", IF e < 0 THEN "-" ELSE "+">> \o etext

\* the table sections 3 and 4 produced, read as a raw table
AsRawTable(t) ==
    [i \in 1..Len(t) |->
        [t[i] EXCEPT !.MRP = FormatFloat(t[i].MRP_clean),
                     !.Discount = FormatFloat(t[i].Discount_pct)]]

\* pd.to_numeric of a column that is numeric already returns it
RecleanTable(t) ==
    [i \in 1..Len(t) |->
        [t[i] EXCEPT
            !.MRP_clean = CleanMRPCell(t[i].MRP),
            !.Discount_pct = AsTypeFloat(DiscountRun(t[i].Discount))]]

Reapply ==
    /\ pc = "aggregate"
    /\ LET raw == AsRawTable(products)
       IN  IF \E i \in 1..Len(raw) :
                  AsTypeFloatRaises(DiscountRun(raw[i].Discount))
           THEN /\ pc' = "aborted" /\ error' = "ValueError"
                /\ UNCHANGED recleaned
           ELSE /\ recleaned' = DeriveTable(RecleanTable(raw))
                /\ pc' = "reapplied"
                /\ UNCHANGED error
    /\ UNCHANGED <<csv, data_raw, products, premium_cutoff, category_agg,
                   brand_agg, insights, output>>

IdemNext == Derive \/ Reapply

\* one-row tables whose MRP or Discount is a decimal text of at most
\* MaxDecLen characters
DecTexts == SeqsUpTo({"0", "1", "."}, MaxDecLen)

IdemRows ==
    {RawRow("p", "A", "X", IF col = "MRP" THEN t ELSE <<"1">>, sell,
            IF col = "Discount" THEN t ELSE <<>>, <<"R", "s">>) :
        t \in DecTexts, col \in {"MRP", "Discount"}, sell \in {<<>>, <<"1">>}}

IdemInit ==
    \E file \in SeqsUpTo(IdemRows, 1) : StartCleaned(file)

IdemSpec == IdemInit /\ [][IdemNext]_vars

----------------------------------------------------------------------------
(* Claims C1 to C3: the clean stage.                                       *)

HasCategory(file) == \E i \in 1..Len(file) : file[i].Category # ""

\* C1: on a readable table with the required columns and a row with a
\* Category, the run goes load, clean, derive, aggregate, report, export
\* and no stage aborts it.  Stated for the tables all of whose Discount
\* cells convert, so that ExtractDiscount does not raise: the run never
\* ends aborted.
C1_NoStageAborts == (HasCategory(csv) /\ Cleanable(csv)) => pc # "aborted"

\* the maximal runs of digits and dots of a text that hold a digit
NumberRuns(s) ==
    {r \in (1..Len(s)) \X (1..Len(s)) :
        /\ r[1] <= r[2]
        /\ \A k \in r[1]..r[2] : s[k] \in RunChars
        /\ (r[1] = 1 \/ s[r[1] - 1] \notin RunChars)
        /\ (r[2] = Len(s) \/ s[r[2] + 1] \notin RunChars)
        /\ \E k \in r[1]..r[2] : s[k] \in Digits}

\* a text with no digit, or whose digits form one well-formed number
OneNumberOrNone(s) ==
    \/ NumberRuns(s) = {}
    \/ /\ Cardinality(NumberRuns(s)) = 1
       /\ \A r \in NumberRuns(s) : ValidNumber(SubSeq(s, r[1], r[2]))

\* missing for a text with no digit, else the value of its number
NumericSubstringValue(s) ==
    IF NumberRuns(s) = {} THEN NaN
    ELSE LET r == CHOOSE x \in NumberRuns(s) : TRUE
         IN  RunValue(SubSeq(s, r[1], r[2]))

\* C2: for every MRP text (after comma removal) and every Discount text
\* that holds one numeric substring, the cleaned value is that substring's
\* number, whatever surrounds it, a "." before the digits included; for a
\* text with no numeric substring it is missing.
C2_ExtractionYieldsNumericSubstring ==
    \A i \in 1..Len(products) :
        LET mrp == RemoveCommas(AsStr(products[i].MRP))
            disc == AsStr(products[i].Discount)
        IN  /\ (products[i].MRP_clean # Absent /\ OneNumberOrNone(mrp))
                   => products[i].MRP_clean = NumericSubstringValue(mrp)
            /\ (products[i].Discount_pct # Absent /\ OneNumberOrNone(disc))
                   => products[i].Discount_pct = NumericSubstringValue(disc)

NoValidFirstRun(s) == ExtractRun(s) = <<>> \/ ~ValidNumber(ExtractRun(s))

\* C3: a parse failure never aborts the run: once section 3.1 (3.3) has
\* run, every MRP (Discount) cell with no digit/dot run, or whose first run
\* is no number, has a missing MRP_clean (Discount_pct), and no ValueError
\* was raised.
C3_ParseFailureGivesMissing ==
    /\ error # "ValueError"
    /\ \A i \in 1..Len(products) :
        /\ (pc \notin {"load", "clean_mrp"}
                /\ NoValidFirstRun(RemoveCommas(AsStr(products[i].MRP))))
               => products[i].MRP_clean = NaN
        /\ (pc \notin {"load", "clean_mrp", "clean_sell", "extract_disc"}
                /\ NoValidFirstRun(AsStr(products[i].Discount)))
               => products[i].Discount_pct = NaN

----------------------------------------------------------------------------
(* Claims C4 to C8: derivation and aggregation.                            *)

Derived == pc # "derive"
Aggregated == pc \notin {"derive", "aggregate"}

Categories == {products[i].Category : i \in 1..Len(products)}
SummaryKeys(agg) == {agg[i].key : i \in 1..Len(agg)}
RowsOf(k) == {i \in 1..Len(products) : products[i].Category = k}

\* C4 as written: the category summary has exactly one row per distinct
\* Category value of the product table, the missing Category included
\* when some product row has none.
C4_RowPerCategoryMissingIncluded ==
    Aggregated =>
        /\ SummaryKeys(category_agg) = Categories
        /\ Len(category_agg) = Cardinality(Categories)

\* C4 amended: the category summary has exactly one row per distinct
\* non-missing Category value; product rows with a missing Category are in
\* no summary row; each row's Products is the number of distinct
\* non-missing Product IDs of the rows of its Category, and its Premium_share
\* their share of premium rows.
C4_RowPerNonMissingCategory ==
    Aggregated =>
        /\ SummaryKeys(category_agg) = Categories \ {NoKey}
        /\ Len(category_agg) = Cardinality(Categories \ {NoKey})
        /\ \A g \in 1..Len(category_agg) :
            LET members == RowsOf(category_agg[g].key)
            IN  /\ category_agg[g].Products =
                       Cardinality({products[i].ProductID : i \in members}
                                       \ {NoKey})
                /\ category_agg[g].Premium_share =
                       Fin(Cardinality({i \in members :
                                           products[i].Is_premium = 1}),
                           Cardinality(members))

C4_Witness ==
    /\ Aggregated
    /\ NoKey \in Categories
    /\ Len(category_agg) = 1
    /\ category_agg[1].Products = 2

\* C5: after the derive stage every Discount_ratio is missing or a finite
\* number equal to Discount_value / MRP_clean, never infinite; it is missing
\* exactly when MRP_clean is 0 or either operand is missing or infinite.
C5_RatioMissingOrFinite ==
    Derived =>
        \A i \in 1..Len(products) :
            LET ratio == products[i].Discount_ratio
                value == products[i].Discount_value
                mrp == products[i].MRP_clean
                defined == IsFin(value) /\ IsFin(mrp) /\ mrp[2] # 0
            IN  /\ IsNaN(ratio) \/ IsFin(ratio)
                /\ IsFin(ratio) <=> defined
                /\ IsFin(ratio) => Mul(ratio, mrp) = value

C5_Witness ==
    /\ Derived
    /\ \E i \in 1..Len(products) :
          /\ products[i].MRP_clean = Num(0)
          /\ IsFin(products[i].SellPrice) /\ products[i].SellPrice # Num(0)
          /\ IsNaN(products[i].Discount_ratio)
    /\ \E i \in 1..Len(products) :
          /\ IsInf(products[i].SellPrice) /\ IsFin(products[i].MRP_clean)
          /\ IsNaN(products[i].Discount_ratio)
    /\ \E i \in 1..Len(products) :
          /\ IsFin(products[i].Discount_ratio)
          /\ products[i].Discount_ratio # Num(0)

\* the non-missing MRP_clean values, as a set of row numbers
Priced == {i \in 1..Len(products) : ~IsNaN(products[i].MRP_clean)}

\* the k-th smallest non-missing MRP_clean, by rank
KthSmallestMRP(k) ==
    LET v == CHOOSE x \in {products[i].MRP_clean : i \in Priced} :
                 /\ Cardinality({i \in Priced : Lt(products[i].MRP_clean, x)}) < k
                 /\ Cardinality({i \in Priced : ~Lt(x, products[i].MRP_clean)}) >= k
    IN  v

\* the 75th percentile by linear interpolation between ranks
P75ByRank ==
    LET n == Cardinality(Priced)
        lo == (3 * (n - 1)) \div 4
        rem == (3 * (n - 1)) % 4
    IN  IF n = 0 THEN NaN
        ELSE IF rem = 0 THEN KthSmallestMRP(lo + 1)
        ELSE LET a == KthSmallestMRP(lo + 1)
                 b == KthSmallestMRP(lo + 2)
             IN  Fin((4 - rem) * a[2] * b[3] + rem * b[2] * a[3],
                     4 * a[3] * b[3])

\* C6: a row with a missing MRP_clean has Is_premium = 0, also when every
\* MRP_clean is missing; a row with an MRP_clean has Is_premium = 1 exactly
\* when its MRP_clean is at least the 75th percentile of the non-missing
\* MRP_clean values, and 0 otherwise.
C6_PremiumFlag ==
    Derived =>
        /\ premium_cutoff = P75ByRank
        /\ \A i \in 1..Len(products) :
            IF IsNaN(products[i].MRP_clean)
            THEN products[i].Is_premium = 0
            ELSE products[i].Is_premium =
                     (IF Lt(products[i].MRP_clean, P75ByRank) THEN 0 ELSE 1)

C6_Witness ==
    /\ Derived
    /\ Cardinality(Priced) = 2
    /\ \E i \in 1..Len(products) :
          IsNaN(products[i].MRP_clean) /\ products[i].Is_premium = 0
    /\ \E i \in Priced : products[i].Is_premium = 1
    /\ \E i \in Priced : products[i].Is_premium = 0

\* the product rows with a Revenue and a Category
Counted ==
    SelectSeq(products, LAMBDA r : r.Category # NoKey /\ ~IsNaN(r.Revenue))

Totals(agg) == Column(agg, "Total_Revenue")

\* C8 as written: in the category summary and in the brand summary
\* Total_Revenue is non-increasing from the first row to the last.
C8_TotalsNonIncreasing ==
    Aggregated =>
        /\ \A g \in 1..(Len(category_agg) - 1) :
               Ge(Totals(category_agg)[g], Totals(category_agg)[g + 1])
        /\ \A g \in 1..(Len(brand_agg) - 1) :
               Ge(Totals(brand_agg)[g], Totals(brand_agg)[g + 1])

NumbersThenNaN(tot) ==
    \A g \in 1..(Len(tot) - 1) :
        \/ IsNaN(tot[g + 1])
        \/ ~IsNaN(tot[g]) /\ ~Lt(tot[g], tot[g + 1])

\* C8 amended: in both summaries the rows whose Total_Revenue is a number
\* come first, in non-increasing order of Total_Revenue, and the rows whose
\* Total_Revenue is NaN (a group with both +inf and -inf revenue) come
\* last.
C8_TotalsNonIncreasingNaNLast ==
    Aggregated =>
        NumbersThenNaN(Totals(category_agg)) /\ NumbersThenNaN(Totals(brand_agg))

C8_Witness ==
    /\ Aggregated
    /\ Len(category_agg) = 2
    /\ Lt(Totals(category_agg)[2], Totals(category_agg)[1])
    /\ Len(brand_agg) = 2
    /\ IsNaN(Totals(brand_agg)[2]) /\ ~IsNaN(Totals(brand_agg)[1])

----------------------------------------------------------------------------
(* Claims C9 and C10.                                                      *)

\* C9: cleaning and deriving the cleaned table a second time gives, in
\* every row, the MRP_clean, Discount_pct, Discount_value, Discount_ratio,
\* Revenue and Is_premium of the first application.
C9_SecondApplicationSame ==
    pc = "reapplied" =>
        \A i \in 1..Len(products) :
            \A col \in {"MRP_clean", "Discount_pct", "Discount_value",
                        "Discount_ratio", "Revenue", "Is_premium"} :
                recleaned[i][col] = products[i][col]

InsightColumns ==
    [highest_discount |-> "Avg_Discount_pct",
     premium_category |-> "Premium_share",
     top_revenue |-> "Total_Revenue"]

HasValue(col) ==
    \E g \in 1..Len(category_agg) : ~IsNaN(category_agg[g][col])

\* the first row holding the largest non-missing value of a column
IsFirstMax(g, col) ==
    /\ ~IsNaN(category_agg[g][col])
    /\ \A h \in 1..Len(category_agg) :
           ~Lt(category_agg[g][col], category_agg[h][col])
    /\ \A h \in 1..(g - 1) : category_agg[h][col] # category_agg[g][col]

\* C10: when the report stage completes, each of the three insights names
\* the first summary row, in the summary's order, that holds the maximum of
\* its column over the non-missing values; when the summary is empty or a
\* column is missing in every row, the stage fails and names no category.
C10_StableArgmaxOrNoData ==
    pc \in {"export", "done"} =>
        \A f \in DOMAIN InsightColumns :
            /\ HasValue(InsightColumns[f])
            /\ \E g \in 1..Len(category_agg) :
                  /\ IsFirstMax(g, InsightColumns[f])
                  /\ insights[f] = category_agg[g].key

====
